---- MODULE Spec2Model ----
(***************************************************************************)
(* dspai::Component: the lifecycle / execution state machine of a          *)
(* component (component.hpp), its IExecution queries (execution.hpp) and   *)
(* the ILifecycle contract (lifecycle.hpp).                                 *)
(*                                                                         *)
(* One action per public operation.  A component is single-threaded and    *)
(* its hooks never call back into the public operations, so every public   *)
(* call is one atomic step.  The four hooks are pure virtual: their        *)
(* results are chosen nondeterministically and every invocation is         *)
(* recorded.                                                               *)
(***************************************************************************)
EXTENDS Naturals, Sequences, FiniteSets

\* ---------------------------------------------------------------- bounds
\* width of the model's counter; the source counter is std::uint64_t
CounterBits == 3
\* number of public calls the driving manager makes on one instance
MaxCalls == 10

CounterModulus == 2 ^ CounterBits

\* ----------------------------------------------------------------- enums
LifecycleState == {"Uninitialized", "Initialized", "Terminated"}

ExecutionState == {"Reset", "Running", "Done"}

\* std::error_code values: the empty code, the code initialize() makes
\* itself, and the codes a doInitialize hook can report (a hook is free to
\* report operation_not_permitted as well)
Success == "success"

operation_not_permitted == "operation_not_permitted"

HookErrors == {"io_error", operation_not_permitted}

Hooks == {"doInitialize", "doReset", "doExecute", "doTerminate"}

\* -------------------------------------------------------------- the state
VARIABLES
    lifecycle_state_,   \* Component::lifecycle_state_
    execution_state_,   \* Component::execution_state_
    count_,             \* Component::count_ (modulo CounterModulus)
    hookCalls,          \* total number of invocations of each hook
    terminateCalled,    \* terminate() has been called at least once
    initSucceeded,      \* number of doInitialize invocations that succeeded
    executedSince,      \* doExecute invocations since the last successful
                        \* doInitialize or the last doReset
    last,               \* the last public call: operation, return value,
                        \* hooks it invoked, fields before it, call before it
    calls               \* number of public calls made so far

fields == <<lifecycle_state_, execution_state_, count_>>

vars == <<lifecycle_state_, execution_state_, count_, hookCalls,
          terminateCalled, initSucceeded, executedSince, last, calls>>

\* --------------------------------------------------------------- queries
\* ILifecycle::lifecycle_state
lifecycle_state(l) == l

\* an execution_state() with the two masked values exchanged
execution_state_swapped(l, e) ==
    IF l = "Uninitialized" THEN "Done"
    ELSE IF l = "Terminated" THEN "Reset"
    ELSE e

\* IExecution::execution_state as Component implements it
execution_state(l, e) ==
    IF l = "Uninitialized" THEN "Reset"
    ELSE IF l = "Terminated" THEN "Done"
    ELSE e

\* a count() that reports an all-ones sentinel outside Initialized
count_sentinel(l, c) ==
    IF l # "Initialized" THEN CounterModulus - 1 ELSE c

\* IExecution::count as Component implements it
count(l, c) ==
    IF l # "Initialized" THEN 0 ELSE c

\* an is_ready() that looks at the execution state only
is_ready_no_lifecycle(l, e) ==
    LET s == execution_state(l, e)
    IN  s = "Reset" \/ s = "Running"

\* an is_ready() that tests the lifecycle state only
is_ready_initialized_only(l, e) ==
    lifecycle_state(l) = "Initialized"

\* IExecution::is_ready
is_ready(l, e) ==
    IF lifecycle_state(l) # "Initialized" THEN FALSE
    ELSE LET s == execution_state(l, e)
         IN  s = "Reset" \/ s = "Running"

\* ----------------------------------------------------------------- hooks
\* doInitialize: empty code on success, an error code on failure
doInitialize == {Success} \cup HookErrors

\* doExecute: true if processing is complete, false to continue
doExecute == BOOLEAN

\* one hook invocation and what it returned ("void" for doReset, doTerminate)
Invoked(hook, result) == [hook |-> hook, result |-> result]

\* the record of the public call now being made
Called(op, ret, invoked) ==
    [op    |-> op,
     ret   |-> ret,
     hooks |-> invoked,
     pre   |-> [lifecycle |-> lifecycle_state_,
                execution |-> execution_state_,
                count     |-> count_],
     prev  |-> last.op]

\* hookCalls after the invocations of one call
Counted(invoked) ==
    [h \in Hooks |->
        hookCalls[h] + Cardinality({i \in 1..Len(invoked) : invoked[i].hook = h})]

\* executedSince after one more hook invocation
SinceStep(n, h) ==
    IF h.hook = "doExecute" THEN n + 1
    ELSE IF h.hook = "doReset" THEN 0
    ELSE IF h.hook = "doInitialize" THEN (IF h.result = Success THEN 0 ELSE n)
    ELSE n

\* executedSince after the invocations of one call, in their order
RECURSIVE SinceFrom(_, _)
SinceFrom(n, invoked) ==
    IF invoked = <<>> THEN n
    ELSE SinceFrom(SinceStep(n, Head(invoked)), Tail(invoked))

Since(invoked) == SinceFrom(executedSince, invoked)

\* ------------------------------------------------------------------ Init
\* Component() = default with the default member initializers
Init ==
    /\ lifecycle_state_ = "Uninitialized"
    /\ execution_state_ = "Reset"
    /\ count_ = 0
    /\ hookCalls = [h \in Hooks |-> 0]
    /\ terminateCalled = FALSE
    /\ initSucceeded = 0
    /\ executedSince = 0
    /\ last = [op    |-> "none",
               ret   |-> "void",
               hooks |-> <<>>,
               pre   |-> [lifecycle |-> "Uninitialized",
                          execution |-> "Reset",
                          count     |-> 0],
               prev  |-> "none"]
    /\ calls = 0

\* ------------------------------------------------------------ operations
\* initialize() whose guard rejects only an Initialized component
initialize_reinit ==
    /\ calls < MaxCalls
    /\ calls' = calls + 1
    /\ UNCHANGED terminateCalled
    /\ IF lifecycle_state_ = "Initialized"
       THEN /\ last' = Called("initialize", operation_not_permitted, <<>>)
            /\ UNCHANGED <<fields, hookCalls, initSucceeded, executedSince>>
       ELSE \E result \in doInitialize :
            LET invoked == <<Invoked("doInitialize", result)>>
            IN  /\ IF result = Success
                   THEN /\ lifecycle_state_' = "Initialized"
                        /\ execution_state_' = "Reset"
                        /\ count_' = 0
                   ELSE UNCHANGED fields
                /\ hookCalls' = Counted(invoked)
                /\ executedSince' = Since(invoked)
                /\ initSucceeded' = IF result = Success THEN initSucceeded + 1
                                                       ELSE initSucceeded
                /\ last' = Called("initialize", result, invoked)

\* initialize() without the Uninitialized guard
initialize_unguarded ==
    /\ calls < MaxCalls
    /\ calls' = calls + 1
    /\ UNCHANGED terminateCalled
    /\ \E result \in doInitialize :
       LET invoked == <<Invoked("doInitialize", result)>>
       IN  /\ IF result = Success
              THEN /\ lifecycle_state_' = "Initialized"
                   /\ execution_state_' = "Reset"
                   /\ count_' = 0
              ELSE UNCHANGED fields
           /\ hookCalls' = Counted(invoked)
           /\ executedSince' = Since(invoked)
           /\ initSucceeded' = IF result = Success THEN initSucceeded + 1
                                                  ELSE initSucceeded
           /\ last' = Called("initialize", result, invoked)

\* initialize() that commits the new state whatever the hook returned
initialize_commit_always ==
    /\ calls < MaxCalls
    /\ calls' = calls + 1
    /\ UNCHANGED terminateCalled
    /\ IF lifecycle_state_ # "Uninitialized"
       THEN /\ last' = Called("initialize", operation_not_permitted, <<>>)
            /\ UNCHANGED <<fields, hookCalls, initSucceeded, executedSince>>
       ELSE \E result \in doInitialize :
            LET invoked == <<Invoked("doInitialize", result)>>
            IN  /\ lifecycle_state_' = "Initialized"
                /\ execution_state_' = "Reset"
                /\ count_' = 0
                /\ hookCalls' = Counted(invoked)
                /\ executedSince' = Since(invoked)
                /\ initSucceeded' = IF result = Success THEN initSucceeded + 1
                                                       ELSE initSucceeded
                /\ last' = Called("initialize", result, invoked)

\* initialize() with the test of the hook's result inverted
initialize_inverted ==
    /\ calls < MaxCalls
    /\ calls' = calls + 1
    /\ UNCHANGED terminateCalled
    /\ IF lifecycle_state_ # "Uninitialized"
       THEN /\ last' = Called("initialize", operation_not_permitted, <<>>)
            /\ UNCHANGED <<fields, hookCalls, initSucceeded, executedSince>>
       ELSE \E result \in doInitialize :
            LET invoked == <<Invoked("doInitialize", result)>>
            IN  /\ IF result # Success
                   THEN /\ lifecycle_state_' = "Initialized"
                        /\ execution_state_' = "Reset"
                        /\ count_' = 0
                   ELSE UNCHANGED fields
                /\ hookCalls' = Counted(invoked)
                /\ executedSince' = Since(invoked)
                /\ initSucceeded' = IF result = Success THEN initSucceeded + 1
                                                       ELSE initSucceeded
                /\ last' = Called("initialize", result, invoked)

\* initialize() whose guard rejects only a Terminated component
initialize_rejects_terminated_only ==
    /\ calls < MaxCalls
    /\ calls' = calls + 1
    /\ UNCHANGED terminateCalled
    /\ IF lifecycle_state_ = "Terminated"
       THEN /\ last' = Called("initialize", operation_not_permitted, <<>>)
            /\ UNCHANGED <<fields, hookCalls, initSucceeded, executedSince>>
       ELSE \E result \in doInitialize :
            LET invoked == <<Invoked("doInitialize", result)>>
            IN  /\ IF result = Success
                   THEN /\ lifecycle_state_' = "Initialized"
                        /\ execution_state_' = "Reset"
                        /\ count_' = 0
                   ELSE UNCHANGED fields
                /\ hookCalls' = Counted(invoked)
                /\ executedSince' = Since(invoked)
                /\ initSucceeded' = IF result = Success THEN initSucceeded + 1
                                                       ELSE initSucceeded
                /\ last' = Called("initialize", result, invoked)

\* Component::initialize
initialize ==
    /\ calls < MaxCalls
    /\ calls' = calls + 1
    /\ UNCHANGED terminateCalled
    /\ IF lifecycle_state_ # "Uninitialized"
       THEN /\ last' = Called("initialize", operation_not_permitted, <<>>)
            /\ UNCHANGED <<fields, hookCalls, initSucceeded, executedSince>>
       ELSE \E result \in doInitialize :
            LET invoked == <<Invoked("doInitialize", result)>>
            IN  /\ IF result = Success
                   THEN /\ lifecycle_state_' = "Initialized"
                        /\ execution_state_' = "Reset"
                        /\ count_' = 0
                   ELSE UNCHANGED fields
                /\ hookCalls' = Counted(invoked)
                /\ executedSince' = Since(invoked)
                /\ initSucceeded' = IF result = Success THEN initSucceeded + 1
                                                       ELSE initSucceeded
                /\ last' = Called("initialize", result, invoked)

\* terminate() without the already-Terminated early return
terminate_unguarded ==
    /\ calls < MaxCalls
    /\ calls' = calls + 1
    /\ terminateCalled' = TRUE
    /\ UNCHANGED initSucceeded
    /\ LET invoked == <<Invoked("doTerminate", "void")>>
       IN  /\ lifecycle_state_' = "Terminated"
           /\ execution_state_' = "Done"
           /\ count_' = 0
           /\ hookCalls' = Counted(invoked)
           /\ executedSince' = Since(invoked)
           /\ last' = Called("terminate", "void", invoked)

\* terminate() that skips the cleanup hook when nothing was initialized
terminate_skip_uninitialized ==
    /\ calls < MaxCalls
    /\ calls' = calls + 1
    /\ terminateCalled' = TRUE
    /\ UNCHANGED initSucceeded
    /\ IF lifecycle_state_ = "Terminated"
       THEN /\ last' = Called("terminate", "void", <<>>)
            /\ UNCHANGED <<fields, hookCalls, executedSince>>
       ELSE LET invoked == IF lifecycle_state_ = "Uninitialized"
                           THEN <<>>
                           ELSE <<Invoked("doTerminate", "void")>>
            IN  /\ lifecycle_state_' = "Terminated"
                /\ execution_state_' = "Done"
                /\ count_' = 0
                /\ hookCalls' = Counted(invoked)
                /\ executedSince' = Since(invoked)
                /\ last' = Called("terminate", "void", invoked)

\* terminate() that hands the component back as Uninitialized
terminate_to_uninitialized ==
    /\ calls < MaxCalls
    /\ calls' = calls + 1
    /\ terminateCalled' = TRUE
    /\ UNCHANGED initSucceeded
    /\ IF lifecycle_state_ = "Terminated"
       THEN /\ last' = Called("terminate", "void", <<>>)
            /\ UNCHANGED <<fields, hookCalls, executedSince>>
       ELSE LET invoked == <<Invoked("doTerminate", "void")>>
            IN  /\ lifecycle_state_' = "Uninitialized"
                /\ execution_state_' = "Reset"
                /\ count_' = 0
                /\ hookCalls' = Counted(invoked)
                /\ executedSince' = Since(invoked)
                /\ last' = Called("terminate", "void", invoked)

\* terminate() that sets the lifecycle state only and leaves the rest masked
terminate_lifecycle_only ==
    /\ calls < MaxCalls
    /\ calls' = calls + 1
    /\ terminateCalled' = TRUE
    /\ UNCHANGED initSucceeded
    /\ IF lifecycle_state_ = "Terminated"
       THEN /\ last' = Called("terminate", "void", <<>>)
            /\ UNCHANGED <<fields, hookCalls, executedSince>>
       ELSE LET invoked == <<Invoked("doTerminate", "void")>>
            IN  /\ lifecycle_state_' = "Terminated"
                /\ UNCHANGED <<execution_state_, count_>>
                /\ hookCalls' = Counted(invoked)
                /\ executedSince' = Since(invoked)
                /\ last' = Called("terminate", "void", invoked)

\* Component::terminate
terminate ==
    /\ calls < MaxCalls
    /\ calls' = calls + 1
    /\ terminateCalled' = TRUE
    /\ UNCHANGED initSucceeded
    /\ IF lifecycle_state_ = "Terminated"
       THEN /\ last' = Called("terminate", "void", <<>>)
            /\ UNCHANGED <<fields, hookCalls, executedSince>>
       ELSE LET invoked == <<Invoked("doTerminate", "void")>>
            IN  /\ lifecycle_state_' = "Terminated"
                /\ execution_state_' = "Done"
                /\ count_' = 0
                /\ hookCalls' = Counted(invoked)
                /\ executedSince' = Since(invoked)
                /\ last' = Called("terminate", "void", invoked)

\* execute() that counts only the steps that did not complete
execute_count_unfinished ==
    /\ calls < MaxCalls
    /\ calls' = calls + 1
    /\ UNCHANGED <<terminateCalled, initSucceeded>>
    /\ IF lifecycle_state_ # "Initialized"
       THEN /\ last' = Called("execute", FALSE, <<>>)
            /\ UNCHANGED <<fields, hookCalls, executedSince>>
       ELSE IF execution_state_ = "Done"
       THEN /\ last' = Called("execute", TRUE, <<>>)
            /\ UNCHANGED <<fields, hookCalls, executedSince>>
       ELSE \E done \in doExecute :
            LET running == IF execution_state_ = "Reset"
                           THEN "Running" ELSE execution_state_
                invoked == <<Invoked("doExecute", done)>>
            IN  /\ execution_state_' = IF done THEN "Done" ELSE running
                /\ count_' = IF done THEN count_
                             ELSE (count_ + 1) % CounterModulus
                /\ UNCHANGED lifecycle_state_
                /\ hookCalls' = Counted(invoked)
                /\ executedSince' = Since(invoked)
                /\ last' = Called("execute", done, invoked)

\* execute() without the lifecycle guard
execute_no_lifecycle_guard ==
    /\ calls < MaxCalls
    /\ calls' = calls + 1
    /\ UNCHANGED <<terminateCalled, initSucceeded>>
    /\ IF execution_state_ = "Done"
       THEN /\ last' = Called("execute", TRUE, <<>>)
            /\ UNCHANGED <<fields, hookCalls, executedSince>>
       ELSE \E done \in doExecute :
            LET running == IF execution_state_ = "Reset"
                           THEN "Running" ELSE execution_state_
                invoked == <<Invoked("doExecute", done)>>
            IN  /\ execution_state_' = IF done THEN "Done" ELSE running
                /\ count_' = (count_ + 1) % CounterModulus
                /\ UNCHANGED lifecycle_state_
                /\ hookCalls' = Counted(invoked)
                /\ executedSince' = Since(invoked)
                /\ last' = Called("execute", done, invoked)

\* execute() without the already-Done early return
execute_no_done_guard ==
    /\ calls < MaxCalls
    /\ calls' = calls + 1
    /\ UNCHANGED <<terminateCalled, initSucceeded>>
    /\ IF lifecycle_state_ # "Initialized"
       THEN /\ last' = Called("execute", FALSE, <<>>)
            /\ UNCHANGED <<fields, hookCalls, executedSince>>
       ELSE \E done \in doExecute :
            LET running == IF execution_state_ = "Reset"
                           THEN "Running" ELSE execution_state_
                invoked == <<Invoked("doExecute", done)>>
            IN  /\ execution_state_' = IF done THEN "Done" ELSE running
                /\ count_' = (count_ + 1) % CounterModulus
                /\ UNCHANGED lifecycle_state_
                /\ hookCalls' = Counted(invoked)
                /\ executedSince' = Since(invoked)
                /\ last' = Called("execute", done, invoked)

\* execute() that returns false when already Done, as execution.hpp:59 words it
execute_done_returns_false ==
    /\ calls < MaxCalls
    /\ calls' = calls + 1
    /\ UNCHANGED <<terminateCalled, initSucceeded>>
    /\ IF lifecycle_state_ # "Initialized"
       THEN /\ last' = Called("execute", FALSE, <<>>)
            /\ UNCHANGED <<fields, hookCalls, executedSince>>
       ELSE IF execution_state_ = "Done"
       THEN /\ last' = Called("execute", FALSE, <<>>)
            /\ UNCHANGED <<fields, hookCalls, executedSince>>
       ELSE \E done \in doExecute :
            LET running == IF execution_state_ = "Reset"
                           THEN "Running" ELSE execution_state_
                invoked == <<Invoked("doExecute", done)>>
            IN  /\ execution_state_' = IF done THEN "Done" ELSE running
                /\ count_' = (count_ + 1) % CounterModulus
                /\ UNCHANGED lifecycle_state_
                /\ hookCalls' = Counted(invoked)
                /\ executedSince' = Since(invoked)
                /\ last' = Called("execute", done, invoked)

\* execute() that clears the counter when the hook reports completion
execute_restart_on_done ==
    /\ calls < MaxCalls
    /\ calls' = calls + 1
    /\ UNCHANGED <<terminateCalled, initSucceeded>>
    /\ IF lifecycle_state_ # "Initialized"
       THEN /\ last' = Called("execute", FALSE, <<>>)
            /\ UNCHANGED <<fields, hookCalls, executedSince>>
       ELSE IF execution_state_ = "Done"
       THEN /\ last' = Called("execute", TRUE, <<>>)
            /\ UNCHANGED <<fields, hookCalls, executedSince>>
       ELSE \E done \in doExecute :
            LET running == IF execution_state_ = "Reset"
                           THEN "Running" ELSE execution_state_
                invoked == <<Invoked("doExecute", done)>>
            IN  /\ execution_state_' = IF done THEN "Done" ELSE running
                /\ count_' = IF done THEN 0
                             ELSE (count_ + 1) % CounterModulus
                /\ UNCHANGED lifecycle_state_
                /\ hookCalls' = Counted(invoked)
                /\ executedSince' = Since(invoked)
                /\ last' = Called("execute", done, invoked)

\* execute() that counts the call before its already-Done early return
execute_counts_noop ==
    /\ calls < MaxCalls
    /\ calls' = calls + 1
    /\ UNCHANGED <<terminateCalled, initSucceeded>>
    /\ IF lifecycle_state_ # "Initialized"
       THEN /\ last' = Called("execute", FALSE, <<>>)
            /\ UNCHANGED <<fields, hookCalls, executedSince>>
       ELSE IF execution_state_ = "Done"
       THEN /\ last' = Called("execute", TRUE, <<>>)
            /\ count_' = (count_ + 1) % CounterModulus
            /\ UNCHANGED <<lifecycle_state_, execution_state_>>
            /\ UNCHANGED <<hookCalls, executedSince>>
       ELSE \E done \in doExecute :
            LET running == IF execution_state_ = "Reset"
                           THEN "Running" ELSE execution_state_
                invoked == <<Invoked("doExecute", done)>>
            IN  /\ execution_state_' = IF done THEN "Done" ELSE running
                /\ count_' = (count_ + 1) % CounterModulus
                /\ UNCHANGED lifecycle_state_
                /\ hookCalls' = Counted(invoked)
                /\ executedSince' = Since(invoked)
                /\ last' = Called("execute", done, invoked)

\* execute() without the transition from Reset to Running
execute_stays_reset ==
    /\ calls < MaxCalls
    /\ calls' = calls + 1
    /\ UNCHANGED <<terminateCalled, initSucceeded>>
    /\ IF lifecycle_state_ # "Initialized"
       THEN /\ last' = Called("execute", FALSE, <<>>)
            /\ UNCHANGED <<fields, hookCalls, executedSince>>
       ELSE IF execution_state_ = "Done"
       THEN /\ last' = Called("execute", TRUE, <<>>)
            /\ UNCHANGED <<fields, hookCalls, executedSince>>
       ELSE \E done \in doExecute :
            LET running == execution_state_
                invoked == <<Invoked("doExecute", done)>>
            IN  /\ execution_state_' = IF done THEN "Done" ELSE running
                /\ count_' = (count_ + 1) % CounterModulus
                /\ UNCHANGED lifecycle_state_
                /\ hookCalls' = Counted(invoked)
                /\ executedSince' = Since(invoked)
                /\ last' = Called("execute", done, invoked)

\* Component::execute
execute ==
    /\ calls < MaxCalls
    /\ calls' = calls + 1
    /\ UNCHANGED <<terminateCalled, initSucceeded>>
    /\ IF lifecycle_state_ # "Initialized"
       THEN /\ last' = Called("execute", FALSE, <<>>)
            /\ UNCHANGED <<fields, hookCalls, executedSince>>
       ELSE IF execution_state_ = "Done"
       THEN /\ last' = Called("execute", TRUE, <<>>)
            /\ UNCHANGED <<fields, hookCalls, executedSince>>
       ELSE \E done \in doExecute :
            LET running == IF execution_state_ = "Reset"
                           THEN "Running" ELSE execution_state_
                invoked == <<Invoked("doExecute", done)>>
            IN  /\ execution_state_' = IF done THEN "Done" ELSE running
                /\ count_' = (count_ + 1) % CounterModulus
                /\ UNCHANGED lifecycle_state_
                /\ hookCalls' = Counted(invoked)
                /\ executedSince' = Since(invoked)
                /\ last' = Called("execute", done, invoked)

\* reset() without the already-Reset early return
reset_no_reset_guard ==
    /\ calls < MaxCalls
    /\ calls' = calls + 1
    /\ UNCHANGED <<terminateCalled, initSucceeded>>
    /\ IF lifecycle_state_ # "Initialized"
       THEN /\ last' = Called("reset", "void", <<>>)
            /\ UNCHANGED <<fields, hookCalls, executedSince>>
       ELSE LET invoked == <<Invoked("doReset", "void")>>
            IN  /\ execution_state_' = "Reset"
                /\ count_' = 0
                /\ UNCHANGED lifecycle_state_
                /\ hookCalls' = Counted(invoked)
                /\ executedSince' = Since(invoked)
                /\ last' = Called("reset", "void", invoked)

\* reset() that rewinds only a component that is Done
reset_done_only ==
    /\ calls < MaxCalls
    /\ calls' = calls + 1
    /\ UNCHANGED <<terminateCalled, initSucceeded>>
    /\ IF lifecycle_state_ # "Initialized"
       THEN /\ last' = Called("reset", "void", <<>>)
            /\ UNCHANGED <<fields, hookCalls, executedSince>>
       ELSE IF execution_state_ # "Done"
       THEN /\ last' = Called("reset", "void", <<>>)
            /\ UNCHANGED <<fields, hookCalls, executedSince>>
       ELSE LET invoked == <<Invoked("doReset", "void")>>
            IN  /\ execution_state_' = "Reset"
                /\ count_' = 0
                /\ UNCHANGED lifecycle_state_
                /\ hookCalls' = Counted(invoked)
                /\ executedSince' = Since(invoked)
                /\ last' = Called("reset", "void", invoked)

\* reset() that forgets to zero the counter
reset_keeps_count ==
    /\ calls < MaxCalls
    /\ calls' = calls + 1
    /\ UNCHANGED <<terminateCalled, initSucceeded>>
    /\ IF lifecycle_state_ # "Initialized"
       THEN /\ last' = Called("reset", "void", <<>>)
            /\ UNCHANGED <<fields, hookCalls, executedSince>>
       ELSE IF execution_state_ = "Reset"
       THEN /\ last' = Called("reset", "void", <<>>)
            /\ UNCHANGED <<fields, hookCalls, executedSince>>
       ELSE LET invoked == <<Invoked("doReset", "void")>>
            IN  /\ execution_state_' = "Reset"
                /\ UNCHANGED count_
                /\ UNCHANGED lifecycle_state_
                /\ hookCalls' = Counted(invoked)
                /\ executedSince' = Since(invoked)
                /\ last' = Called("reset", "void", invoked)

\* reset() without the lifecycle guard
reset_no_lifecycle_guard ==
    /\ calls < MaxCalls
    /\ calls' = calls + 1
    /\ UNCHANGED <<terminateCalled, initSucceeded>>
    /\ IF execution_state_ = "Reset"
       THEN /\ last' = Called("reset", "void", <<>>)
            /\ UNCHANGED <<fields, hookCalls, executedSince>>
       ELSE LET invoked == <<Invoked("doReset", "void")>>
            IN  /\ execution_state_' = "Reset"
                /\ count_' = 0
                /\ UNCHANGED lifecycle_state_
                /\ hookCalls' = Counted(invoked)
                /\ executedSince' = Since(invoked)
                /\ last' = Called("reset", "void", invoked)

\* Component::reset
reset ==
    /\ calls < MaxCalls
    /\ calls' = calls + 1
    /\ UNCHANGED <<terminateCalled, initSucceeded>>
    /\ IF lifecycle_state_ # "Initialized"
       THEN /\ last' = Called("reset", "void", <<>>)
            /\ UNCHANGED <<fields, hookCalls, executedSince>>
       ELSE IF execution_state_ = "Reset"
       THEN /\ last' = Called("reset", "void", <<>>)
            /\ UNCHANGED <<fields, hookCalls, executedSince>>
       ELSE LET invoked == <<Invoked("doReset", "void")>>
            IN  /\ execution_state_' = "Reset"
                /\ count_' = 0
                /\ UNCHANGED lifecycle_state_
                /\ hookCalls' = Counted(invoked)
                /\ executedSince' = Since(invoked)
                /\ last' = Called("reset", "void", invoked)

Next == initialize \/ terminate \/ execute \/ reset

Spec == Init /\ [][Next]_vars

\* ------------------------------------------------------------ type check
TypeOK ==
    /\ lifecycle_state_ \in LifecycleState
    /\ execution_state_ \in ExecutionState
    /\ count_ \in 0..(CounterModulus - 1)
    /\ calls \in 0..MaxCalls
    /\ terminateCalled \in BOOLEAN
    /\ initSucceeded \in 0..MaxCalls
    /\ executedSince \in 0..MaxCalls

\* ------------------------------------------------- what an observer sees
\* the three queries and is_ready() on the current fields
now ==
    [lifecycle |-> lifecycle_state(lifecycle_state_),
     execution |-> execution_state(lifecycle_state_, execution_state_),
     count     |-> count(lifecycle_state_, count_),
     ready     |-> is_ready(lifecycle_state_, execution_state_)]

\* the same queries on the fields as they were before the last call
before ==
    [lifecycle |-> lifecycle_state(last.pre.lifecycle),
     execution |-> execution_state(last.pre.lifecycle, last.pre.execution),
     count     |-> count(last.pre.lifecycle, last.pre.count),
     ready     |-> is_ready(last.pre.lifecycle, last.pre.execution)]

\* the last call left the three stored fields as they were
FieldsKept ==
    /\ lifecycle_state_ = last.pre.lifecycle
    /\ execution_state_ = last.pre.execution
    /\ count_ = last.pre.count

\* the last call invoked exactly this one hook, once
InvokedOnly(hook) ==
    /\ Len(last.hooks) = 1
    /\ last.hooks[1].hook = hook

\* ------------------------------------------------------------------- C1
\* C1: in every reachable state whose lifecycle state is not Initialized
\* (Uninitialized or Terminated), count() returns 0.
C1_CountZeroOutsideInitialized ==
    now.lifecycle # "Initialized" => now.count = 0

\* a component terminated with a nonzero counter
C1_Witness ==
    /\ last.op = "terminate"
    /\ last.pre.lifecycle = "Initialized"
    /\ last.pre.count > 0
    /\ now.lifecycle = "Terminated"
    /\ now.count = 0

\* ------------------------------------------------------------------- C2
ForwardEdges ==
    {<<"Uninitialized", "Initialized">>,
     <<"Initialized", "Terminated">>,
     <<"Uninitialized", "Terminated">>}

\* C2: every step either keeps the lifecycle state or moves it forward
\* (Uninitialized -> Initialized -> Terminated, Uninitialized -> Terminated),
\* and a step taken in Terminated changes none of the lifecycle state, the
\* stored execution state and the counter.
C2_ForwardAndAbsorbing ==
    [][ /\ \/ lifecycle_state_' = lifecycle_state_
           \/ <<lifecycle_state_, lifecycle_state_'>> \in ForwardEdges
        /\ lifecycle_state_ = "Terminated" => UNCHANGED fields ]_vars

\* initialize() was called on a terminated component, which stayed terminated
C2_Witness ==
    /\ last.op = "initialize"
    /\ last.pre.lifecycle = "Terminated"
    /\ lifecycle_state_ = "Terminated"

\* ------------------------------------------------------------------- C3
\* C3: a terminate() call that directly follows a terminate() call leaves
\* every field as it was (so N consecutive calls end in the state of one
\* call), and doTerminate has been invoked exactly once if terminate() was
\* ever called and never otherwise.
C3_TerminateIdempotent ==
    /\ (last.op = "terminate" /\ last.prev = "terminate")
          => (FieldsKept /\ last.hooks = <<>>)
    /\ hookCalls["doTerminate"] = IF terminateCalled THEN 1 ELSE 0

\* a second consecutive terminate() on a component that had been running
C3_Witness ==
    /\ last.op = "terminate"
    /\ last.prev = "terminate"
    /\ hookCalls["doExecute"] > 0
    /\ hookCalls["doTerminate"] = 1

\* ------------------------------------------------------------------- C4
\* C4: terminate() called in a non-Terminated state invokes doTerminate
\* exactly once and leaves lifecycle_state() = Terminated,
\* execution_state() = Done, count() = 0 and is_ready() = false; this holds
\* from Uninitialized too.
C4_TerminateCommits ==
    (last.op = "terminate" /\ last.pre.lifecycle # "Terminated")
       => /\ InvokedOnly("doTerminate")
          /\ now = [lifecycle |-> "Terminated", execution |-> "Done",
                    count |-> 0, ready |-> FALSE]

\* terminate() called directly on an Uninitialized component ran the hook
C4_Witness ==
    /\ last.op = "terminate"
    /\ last.pre.lifecycle = "Uninitialized"
    /\ InvokedOnly("doTerminate")
    /\ now.lifecycle = "Terminated"

\* ------------------------------------------------------------------- C5
\* C5: initialize() called when the lifecycle state is not Uninitialized
\* returns operation_not_permitted, invokes no hook and leaves lifecycle
\* state, execution state and counter unchanged.
C5_InitializeRejected ==
    (last.op = "initialize" /\ last.pre.lifecycle # "Uninitialized")
       => /\ last.ret = operation_not_permitted
          /\ last.hooks = <<>>
          /\ FieldsKept

\* a second initialize() on a running component, which is still running
C5_Witness ==
    /\ last.op = "initialize"
    /\ last.pre.lifecycle = "Initialized"
    /\ last.pre.execution = "Running"
    /\ last.ret = operation_not_permitted
    /\ now.lifecycle = "Initialized"
    /\ now.execution = "Running"

\* ------------------------------------------------------------------- C6
\* C6: initialize() called in Uninitialized with a doInitialize hook that
\* reports an error returns exactly that error and changes no field:
\* lifecycle_state() stays Uninitialized, execution_state() Reset,
\* count() 0 and is_ready() false.
C6_InitializeFailure ==
    (/\ last.op = "initialize"
     /\ last.pre.lifecycle = "Uninitialized"
     /\ InvokedOnly("doInitialize")
     /\ last.hooks[1].result # Success)
       => /\ last.ret = last.hooks[1].result
          /\ FieldsKept
          /\ now = [lifecycle |-> "Uninitialized", execution |-> "Reset",
                    count |-> 0, ready |-> FALSE]

\* an initialize() whose hook reported io_error
C6_Witness ==
    /\ last.op = "initialize"
    /\ last.pre.lifecycle = "Uninitialized"
    /\ InvokedOnly("doInitialize")
    /\ last.hooks[1].result = "io_error"
    /\ last.ret = "io_error"

\* ------------------------------------------------------------------- C7
\* C7: initialize() called in Uninitialized with a doInitialize hook that
\* succeeds returns no error and leaves lifecycle_state() = Initialized,
\* execution_state() = Reset, count() = 0 and is_ready() = true, all in
\* that one call.
C7_InitializeSuccess ==
    (/\ last.op = "initialize"
     /\ last.pre.lifecycle = "Uninitialized"
     /\ InvokedOnly("doInitialize")
     /\ last.hooks[1].result = Success)
       => /\ last.ret = Success
          /\ now = [lifecycle |-> "Initialized", execution |-> "Reset",
                    count |-> 0, ready |-> TRUE]

\* an initialize() that succeeded after an earlier one had failed
C7_Witness ==
    /\ last.op = "initialize"
    /\ last.pre.lifecycle = "Uninitialized"
    /\ last.ret = Success
    /\ hookCalls["doInitialize"] = 2
    /\ now.lifecycle = "Initialized"

\* ------------------------------------------------------------------- C8
\* the last call was execute() on an Initialized component in Reset or Running
ExecuteRan ==
    /\ last.op = "execute"
    /\ last.pre.lifecycle = "Initialized"
    /\ last.pre.execution \in {"Reset", "Running"}

\* what execute() does apart from the counter: one doExecute invocation,
\* its flag returned, Done if it was true and Running otherwise
ExecuteOutcome ==
    /\ InvokedOnly("doExecute")
    /\ last.ret = last.hooks[1].result
    /\ now.execution = IF last.ret THEN "Done" ELSE "Running"
    /\ now.lifecycle = "Initialized"

\* C8 as stated: execute() in Initialized with Reset or Running invokes
\* doExecute once, increases count() by exactly 1 whatever the hook returns,
\* returns the hook's flag and leaves Done or Running.
C8_Original ==
    ExecuteRan => (ExecuteOutcome /\ now.count = before.count + 1)

\* C8 as amended: the same, the counter being incremented in the width of
\* its type: count() becomes count() + 1 modulo the counter's modulus, so
\* from the largest value it wraps to 0.
C8_ExecuteStep ==
    ExecuteRan =>
       (ExecuteOutcome /\ now.count = (before.count + 1) % CounterModulus)

\* an execute() whose hook reported completion, counted all the same
C8_Witness ==
    /\ ExecuteRan
    /\ last.ret = TRUE
    /\ last.pre.execution = "Reset"
    /\ now.execution = "Done"
    /\ now.count = 1

\* ------------------------------------------------------------------- C9
\* C9: execute() called while the lifecycle state is not Initialized
\* returns false, invokes no hook and leaves lifecycle state, execution
\* state and count() unchanged.
C9_ExecuteOutsideInitialized ==
    (last.op = "execute" /\ last.pre.lifecycle # "Initialized")
       => /\ last.ret = FALSE
          /\ last.hooks = <<>>
          /\ FieldsKept
          /\ now.count = before.count

\* execute() on a component terminated while it was running
C9_Witness ==
    /\ last.op = "execute"
    /\ last.pre.lifecycle = "Terminated"
    /\ last.ret = FALSE
    /\ hookCalls["doExecute"] > 0

C11_DoneReturnsFalse ==
    (/\ last.op = "execute"
     /\ last.pre.lifecycle = "Initialized"
     /\ last.pre.execution = "Done")
       => /\ last.ret = FALSE
          /\ last.hooks = <<>>
          /\ FieldsKept

\* ------------------------------------------------------------------ C12
\* C12: reset() called when the lifecycle state is not Initialized, or when
\* the execution state is already Reset, invokes no hook and changes no
\* field; so consecutive reset() calls made in Reset never run doReset.
C12_ResetNoOp ==
    (/\ last.op = "reset"
     /\ \/ last.pre.lifecycle # "Initialized"
        \/ last.pre.execution = "Reset")
       => /\ last.hooks = <<>>
          /\ FieldsKept

\* a reset() that directly follows the reset() that rewound the component
C12_Witness ==
    /\ last.op = "reset"
    /\ last.prev = "reset"
    /\ last.pre.lifecycle = "Initialized"
    /\ last.pre.execution = "Reset"
    /\ hookCalls["doReset"] = 1

\* ------------------------------------------------------------------ C13
\* C13: reset() called while the lifecycle is Initialized and the execution
\* state is Running or Done invokes doReset exactly once and leaves
\* execution_state() = Reset, count() = 0, is_ready() = true and the
\* lifecycle state Initialized.
C13_ResetRewinds ==
    (/\ last.op = "reset"
     /\ last.pre.lifecycle = "Initialized"
     /\ last.pre.execution \in {"Running", "Done"})
       => /\ InvokedOnly("doReset")
          /\ now = [lifecycle |-> "Initialized", execution |-> "Reset",
                    count |-> 0, ready |-> TRUE]

\* a reset() of a component that was running with a nonzero count
C13_Witness ==
    /\ last.op = "reset"
    /\ last.pre.lifecycle = "Initialized"
    /\ last.pre.execution = "Running"
    /\ last.pre.count > 0
    /\ InvokedOnly("doReset")
    /\ now.count = 0

\* ------------------------------------------------------------------ C14
\* C14: in every reachable state is_ready() is true if and only if
\* lifecycle_state() is Initialized and execution_state() is Reset or
\* Running; it is false in Uninitialized, in Initialized with Done and in
\* Terminated.
C14_ReadyIff ==
    /\ now.ready <=> (/\ now.lifecycle = "Initialized"
                      /\ now.execution \in {"Reset", "Running"})
    /\ lifecycle_state_ = "Uninitialized" => ~now.ready
    /\ lifecycle_state_ = "Terminated" => ~now.ready
    /\ (lifecycle_state_ = "Initialized" /\ execution_state_ = "Done")
          => ~now.ready

\* a component made ready again by reset() after it had completed
C14_Witness ==
    /\ last.op = "reset"
    /\ last.pre.execution = "Done"
    /\ ~before.ready
    /\ now.ready

\* ------------------------------------------------------------------ C15
\* C15: in every reachable state execution_state() returns Reset when the
\* lifecycle is Uninitialized, Done when it is Terminated and the stored
\* execution state otherwise, so no observer sees Uninitialized with
\* Running or Done, or Terminated with Reset or Running.
C15_VisibleExecutionState ==
    /\ now.lifecycle = "Uninitialized" => now.execution = "Reset"
    /\ now.lifecycle = "Terminated" => now.execution = "Done"
    /\ now.lifecycle = "Initialized" => now.execution = execution_state_
    /\ now.execution \in ExecutionState

\* a component terminated while it was running reports Done
C15_Witness ==
    /\ last.op = "terminate"
    /\ before.lifecycle = "Initialized"
    /\ before.execution = "Running"
    /\ now.lifecycle = "Terminated"
    /\ now.execution = "Done"

\* ------------------------------------------------------------------ C16
\* the combined state of the design's diagram
Combined(l, e) ==
    IF l = "Uninitialized" THEN "Uninitialized"
    ELSE IF l = "Terminated" THEN "Terminated"
    ELSE e

\* the edges of the diagram that change the combined state, each with the
\* call that causes it
DiagramEdges ==
    {<<"Uninitialized", "initialize", "Reset">>,
     <<"Reset", "execute", "Running">>,
     <<"Reset", "execute", "Done">>,
     <<"Running", "execute", "Done">>,
     <<"Running", "reset", "Reset">>,
     <<"Done", "reset", "Reset">>}
    \cup {<<c, "terminate", "Terminated">> :
             c \in {"Uninitialized", "Reset", "Running", "Done"}}

\* C16: every call that changes the combined state (Uninitialized, Reset,
\* Running, Done, Terminated) follows an edge of the documented diagram and
\* is the call documented for that edge; Uninitialized -> Reset happens only
\* by an initialize() that returned success.
C16_DiagramEdgesOnly ==
    LET from == Combined(last.pre.lifecycle, last.pre.execution)
        to   == Combined(lifecycle_state_, execution_state_)
    IN  from # to =>
           /\ <<from, last.op, to>> \in DiagramEdges
           /\ last.op = "initialize" => last.ret = Success

\* a completed component taken back to Reset by reset()
C16_Witness ==
    /\ last.op = "reset"
    /\ Combined(last.pre.lifecycle, last.pre.execution) = "Done"
    /\ Combined(lifecycle_state_, execution_state_) = "Reset"

C19_Original ==
    /\ (last.op = "execute" /\ before.lifecycle = "Initialized")
          => now.count >= before.count
    /\ now.count < before.count
          => last.op \in {"initialize", "reset", "terminate"}

\* the execute() made at the counter's largest value, which wraps it to 0
Wrapped ==
    /\ last.op = "execute"
    /\ before.count = CounterModulus - 1
    /\ now.count = 0

\* C19 as amended: while the lifecycle is Initialized, count() after an
\* execute() call is greater than or equal to count() before it, except for
\* the execute() made at the counter's largest value, which wraps count()
\* to 0; apart from that wrap count() drops only through initialize, reset
\* or terminate.
C19_MonotoneUpToWrap ==
    /\ (last.op = "execute" /\ before.lifecycle = "Initialized")
          => (now.count >= before.count \/ Wrapped)
    /\ now.count < before.count
          => (last.op \in {"initialize", "reset", "terminate"} \/ Wrapped)

\* an execute() whose hook reported completion took count() from 2 to 3
C19_Witness ==
    /\ ExecuteRan
    /\ last.ret = TRUE
    /\ before.count = 2
    /\ now.count = 3

\* ------------------------------------------------------------------ C20
\* the last call invoked doExecute or doReset
RanWorkHook ==
    \E i \in 1..Len(last.hooks) : last.hooks[i].hook \in {"doExecute", "doReset"}

\* C20: doExecute and doReset are invoked only by a call made while the
\* lifecycle is Initialized, which it still is after the call: a
\* doInitialize invocation has succeeded before and doTerminate has not
\* been invoked.
C20_WorkHooksOnlyInitialized ==
    RanWorkHook =>
       /\ last.pre.lifecycle = "Initialized"
       /\ lifecycle_state_ = "Initialized"
       /\ initSucceeded >= 1
       /\ hookCalls["doTerminate"] = 0

\* a doReset invocation on a component initialized at the second attempt
C20_Witness ==
    /\ RanWorkHook
    /\ last.op = "reset"
    /\ hookCalls["doInitialize"] = 2
    /\ initSucceeded = 1
    /\ hookCalls["doExecute"] >= 2

\* ------------------------------------------------------------------ C21
\* the last call invoked doInitialize
InitializeHookRan ==
    \E i \in 1..Len(last.hooks) : last.hooks[i].hook = "doInitialize"

\* the number of doInitialize successes before the last call
SucceededBefore ==
    initSucceeded
      - Cardinality({i \in 1..Len(last.hooks) :
                        /\ last.hooks[i].hook = "doInitialize"
                        /\ last.hooks[i].result = Success})

\* C21: doInitialize succeeds at most once on an instance; it is never
\* invoked after it has succeeded nor after terminate() has been called;
\* and as long as neither has happened (every earlier attempt failed) an
\* initialize() call does invoke it again.
C21_InitializeAtMostOnce ==
    /\ initSucceeded <= 1
    /\ InitializeHookRan =>
          /\ SucceededBefore = 0
          /\ ~terminateCalled
          /\ hookCalls["doTerminate"] = 0
    /\ (last.op = "initialize" /\ SucceededBefore = 0 /\ ~terminateCalled)
          => InvokedOnly("doInitialize")

\* an initialize() that succeeded after two attempts had failed
C21_Witness ==
    /\ last.op = "initialize"
    /\ last.ret = Success
    /\ hookCalls["doInitialize"] = 3
    /\ initSucceeded = 1
    /\ lifecycle_state_ = "Initialized"

\* ------------------------------------------------------------------ C22
\* C22: while the lifecycle is Initialized and the counter has not
\* overflowed, count() equals the number of doExecute invocations made
\* since the most recent successful initialize() or reset() that invoked
\* doReset; a call on an Initialized component that invokes no hook
\* (execute in Done, reset in Reset, rejected initialize) leaves count()
\* as it was.
C22_CountIsExecutions ==
    /\ (lifecycle_state_ = "Initialized" /\ executedSince < CounterModulus)
          => now.count = executedSince
    /\ (last.pre.lifecycle = "Initialized" /\ last.hooks = <<>>)
          => now.count = before.count

\* two executions counted after a reset() that discarded earlier ones
C22_Witness ==
    /\ lifecycle_state_ = "Initialized"
    /\ last.op = "execute"
    /\ hookCalls["doReset"] = 1
    /\ hookCalls["doExecute"] = 5
    /\ executedSince = 2
    /\ now.count = 2

\* ------------------------------------------------------------------ C23
\* C23: in every reachable state the stored execution_state_ is Reset when
\* the lifecycle is Uninitialized and Done when it is Terminated, and the
\* stored count_ is 0 when the lifecycle is not Initialized, so
\* execution_state() and count() return the stored values unchanged.
C23_StoredEqualsReported ==
    /\ lifecycle_state_ = "Uninitialized" => execution_state_ = "Reset"
    /\ lifecycle_state_ = "Terminated" => execution_state_ = "Done"
    /\ lifecycle_state_ # "Initialized" => count_ = 0
    /\ now.execution = execution_state_
    /\ now.count = count_

\* a component terminated while Running with a count of 2
C23_Witness ==
    /\ last.op = "terminate"
    /\ last.pre.execution = "Running"
    /\ last.pre.count = 2
    /\ lifecycle_state_ = "Terminated"
    /\ execution_state_ = "Done"
    /\ count_ = 0

\* ------------------------------------------------------------------ C24
\* C24: for every execute() call, is_ready() was true just before it if and
\* only if the call invoked doExecute; when it was true the call also
\* incremented the counter (in the counter's width), and when it was false
\* the call invoked no hook and changed no field.
C24_ReadyMeansExecuteRuns ==
    last.op = "execute" =>
       /\ before.ready <=> InvokedOnly("doExecute")
       /\ before.ready =>
             /\ count_ = (last.pre.count + 1) % CounterModulus
             /\ count_ # last.pre.count
       /\ ~before.ready => (last.hooks = <<>> /\ FieldsKept)

\* an execute() on a ready component that completed it
C24_Witness ==
    /\ last.op = "execute"
    /\ before.ready
    /\ before.execution = "Running"
    /\ InvokedOnly("doExecute")
    /\ ~now.ready

\* ------------------------------------------------------------------ C25
\* C25: in every reachable state with lifecycle Initialized, Reset always
\* has count() = 0, and Running and Done have count() >= 1 as long as the
\* counter has not overflowed; so there count() = 0 exactly in Reset.
C25_ZeroIffReset ==
    lifecycle_state_ = "Initialized" =>
       /\ execution_state_ = "Reset" => now.count = 0
       /\ (execution_state_ \in {"Running", "Done"}
             /\ executedSince < CounterModulus)
             => now.count >= 1
       /\ executedSince < CounterModulus
             => (now.count = 0 <=> now.execution = "Reset")

\* a component Done after one execution that followed a reset()
C25_Witness ==
    /\ lifecycle_state_ = "Initialized"
    /\ execution_state_ = "Done"
    /\ hookCalls["doReset"] = 1
    /\ now.count = 1

====
